---------------------------- MODULE Spec2Model ----------------------------
(***************************************************************************)
(* A model of the maintenance-page middleware of src/main.go.              *)
(*                                                                         *)
(* Strings are TLA+ strings, read as sequences of one-character strings    *)
(* (Len, SubSeq and \o act on them as Go's len, slicing and +).  Go's      *)
(* zero-based indexes are shifted by one: position i here is index i-1     *)
(* there, and "not found" is 0 instead of -1.                              *)
(*                                                                         *)
(* Library calls are modelled by what they compute, as of Go 1.22:         *)
(*   strings.Split, TrimSpace,     on any string; white space is what      *)
(*   LastIndex                     unicode.IsSpace accepts;                *)
(*   net.ParseIP, net.ParseCIDR,   IPv4 and IPv6 text as net/netip reads   *)
(*   IPNet.Contains                it, addresses as their 16 bytes;        *)
(*   regexp.Compile, MatchString   the syntax of regexp/syntax under the   *)
(*                                 flags syntax.Perl, and a match as the   *)
(*                                 set of positions at which it may end;   *)
(*   os.Stat, os.ReadFile, Write   the state of the two files and of the   *)
(*                                 connection, which the environment       *)
(*                                 changes at any moment.                  *)
(***************************************************************************)
EXTENDS Integers, Sequences, FiniteSets, TLC

VARIABLES
    config,       \* the *Config values handed to New so far (at most one)
    instance,     \* the *MaintenancePage New returned: <<>> or <<handler>>
    newErr,       \* the error New returned: "uncalled", "nil" or its text
    triggerFile,  \* whether os.Stat(triggerFilename) succeeds now
    contentFile,  \* what os.ReadFile(filename) gives now: [ok, bytes]
    pc,           \* per goroutine: where it stands in ServeHTTP
    req,          \* per goroutine: the *http.Request it was given
    rw0,          \* per goroutine: the ResponseWriter as it was handed in
    rw,           \* per goroutine: the ResponseWriter now
    obs,          \* per goroutine: what its own calls returned (stat, read, write)
    reads,        \* per goroutine: calls of os.ReadFile
    nextCalls,    \* per goroutine: calls of a.next.ServeHTTP
    call,         \* the arguments of a direct call of one of the helpers
    ret           \* what that call returned

vars == <<config, instance, newErr, triggerFile, contentFile, pc, req, rw0, rw,
          obs, reads, nextCalls, call, ret>>

serveVars == <<pc, req, rw0, rw, obs, reads, nextCalls>>
fileVars == <<triggerFile, contentFile>>
newVars == <<config, instance, newErr>>
callVars == <<call, ret>>

-----------------------------------------------------------------------------
(* Bounds of the model.                                                    *)

\* goroutines that may be inside ServeHTTP at the same time
NumReqs == 2
\* longest allow-list and deny-uri list handed to the helpers directly
MaxList == 2

Reqs == 1..NumReqs

-----------------------------------------------------------------------------
(* Characters.  A string of the model is a Go string that is valid UTF-8   *)
(* and holds code points U+0001 to U+00FF only; Chars holds them all, the  *)
(* character of code point n at position n.  A value that several lines of *)
(* the code use is handed to a local operator as its argument, so that it  *)
(* is written, and computed, once.                                         *)

Chars ==
    "\t\n\f\r"
    \o " !\"#$%&'()*+,-./0123456789:;<=>?"
    \o "@ABCDEFGHIJKLMNOPQRSTUVWXYZ[\\]^_"
    \o "" \o SubSeq("`'", 1, 1) \o "abcdefghijklmnopqrstuvwxyz{|}~"
    \o ""
    \o " ¡¢£¤¥¦§¨©ª«¬­®¯°±²³´µ¶·¸¹º»¼½¾¿"
    \o "ÀÁÂÃÄÅÆÇÈÉÊËÌÍÎÏÐÑÒÓÔÕÖ×ØÙÚÛÜÝÞß"
    \o "àáâãäåæçèéêëìíîïðñòóôõö÷øùúûüýþÿ"
At(s, i) == SubSeq(s, i, i)

Char == {At(Chars, n) : n \in 1..255}

\* the code point of a character
Ord == [c \in Char |-> CHOOSE n \in 1..255 : At(Chars, n) = c]

\* the characters of the code points lo..hi
Runes(lo, hi) ==
    {At(Chars, n) : n \in (IF lo < 1 THEN 1 ELSE lo)..(IF hi > 255 THEN 255 ELSE hi)}

-----------------------------------------------------------------------------
(* package strings                                                         *)

\* whether s holds the character c at position i
Has(s, i, c) == i >= 1 /\ i <= Len(s) /\ At(s, i) = c

Digits == {"0", "1", "2", "3", "4", "5", "6", "7", "8", "9"}

DigitVal(c) ==
    CASE c = "0" -> 0 [] c = "1" -> 1 [] c = "2" -> 2 [] c = "3" -> 3
      [] c = "4" -> 4 [] c = "5" -> 5 [] c = "6" -> 6 [] c = "7" -> 7
      [] c = "8" -> 8 [] c = "9" -> 9

\* the least and the greatest number of a set of numbers, 0 for the empty set
MinOf(S) == IF S = {} THEN 0 ELSE CHOOSE i \in S : \A j \in S : i <= j
MaxOf(S) == IF S = {} THEN 0 ELSE CHOOSE i \in S : \A j \in S : j <= i

\* the first position from `from` (1 or more) on at which s holds c, 0 if
\* none
IndexFrom(s, c, from) == MinOf({i \in from..Len(s) : At(s, i) = c})

\* strings.Index(s, c) for a one-character c: the first position, 0 if none
Index(s, c) == IndexFrom(s, c, 1)

\* strings.LastIndex(s, c) for a one-character c: the last position, 0 if none
LastIndex(s, c) == MaxOf({i \in 1..Len(s) : At(s, i) = c})

\* unicode.IsSpace: '\t', '\n', '\v', '\f', '\r', ' ', U+0085 (NEL) and
\* U+00A0 (NBSP)
IsSpace(c) ==
    c \in {"\t", "\n", At(Chars, 11), "\f", "\r", " ", At(Chars, 133), At(Chars, 160)}

\* strings.TrimLeftFunc(s, unicode.IsSpace)
TrimLeft(s) ==
    LET from(i) == IF i = 0 THEN SubSeq(s, 1, 0) ELSE SubSeq(s, i, Len(s))
    IN  from(MinOf({i \in 1..Len(s) : ~IsSpace(At(s, i))}))

\* strings.TrimRightFunc(s, unicode.IsSpace)
TrimRight(s) == SubSeq(s, 1, MaxOf({i \in 1..Len(s) : ~IsSpace(At(s, i))}))

\* strings.TrimSpace
TrimSpace(s) == TrimRight(TrimLeft(s))

\* strings.Split(s, sep) for a one-character sep: the sequence of segments
Split(s, sep) ==
    LET segments(at, n) ==
            LET cut(k) == IF k = 0
                          THEN 0
                          ELSE IF k > n
                          THEN Len(s) + 1
                          ELSE CHOOSE i \in at : Cardinality({j \in at : j <= i}) = k
            IN  [k \in 1..(n + 1) |-> SubSeq(s, cut(k - 1) + 1, cut(k) - 1)]
        cuts(at) == segments(at, Cardinality(at))
    IN  cuts({i \in 1..Len(s) : At(s, i) = sep})

-----------------------------------------------------------------------------
(* packages net and net/netip.  An IP is its sequence of bytes, 4 or 16 of *)
(* them; <<>> is the nil IP.                                               *)

AllDigits(s) == \A i \in 1..Len(s) : At(s, i) \in Digits

\* the value of a string of decimal digits
RECURSIVE DecVal(_)
DecVal(s) ==
    IF Len(s) = 0
    THEN 0
    ELSE 10 * DecVal(SubSeq(s, 1, Len(s) - 1)) + DigitVal(At(s, Len(s)))

\* regexp/syntax's unhex, also the hex digits of netip's parseIPv6: -1 for a
\* character that is no hex digit
unhex(c) ==
    CASE c \in Digits -> DigitVal(c)
      [] c \in {"a", "A"} -> 10 [] c \in {"b", "B"} -> 11
      [] c \in {"c", "C"} -> 12 [] c \in {"d", "D"} -> 13
      [] c \in {"e", "E"} -> 14 [] c \in {"f", "F"} -> 15
      [] OTHER -> -1

\* one field of a dotted-decimal address: one to three digits, no leading
\* zero before another digit, value at most 255
OctetOk(f) ==
    /\ Len(f) \in 1..3
    /\ AllDigits(f)
    /\ (Len(f) > 1 => At(f, 1) # "0")
    /\ DecVal(f) <= 255

\* netip's parseIPv4Fields: four fields and three dots, nothing else; the
\* four bytes, <<>> on an error
parseIPv4Fields(s) ==
    LET fields(f) ==
            IF Len(f) = 4 /\ \A i \in 1..4 : OctetOk(f[i])
            THEN [i \in 1..4 |-> DecVal(f[i])]
            ELSE <<>>
    IN  fields(Split(s, "."))

\* a netip.Addr: its bit length, its 16 bytes (As16) and its zone
Addr(bitLen, as16, zone) ==
    [ok |-> TRUE, bitLen |-> bitLen, as16 |-> as16, zone |-> zone]

\* what a parse that failed returns
NoAddr == [ok |-> FALSE, bitLen |-> 0, as16 |-> <<>>, zone |-> ""]

v4InV6Prefix == <<0, 0, 0, 0, 0, 0, 0, 0, 0, 0, 255, 255>>

\* netip's parseIPv4
parseIPv4(s) ==
    LET addr(fields) ==
            IF Len(fields) = 0 THEN NoAddr ELSE Addr(32, v4InV6Prefix \o fields, "")
    IN  addr(parseIPv4Fields(s))

\* how many hex digits s holds from position i on
RECURSIVE HexRun(_, _)
HexRun(s, i) ==
    IF i <= Len(s) /\ unhex(At(s, i)) >= 0 THEN 1 + HexRun(s, i + 1) ELSE 0

\* the value of a string of at most four hex digits
RECURSIVE HexVal(_)
HexVal(s) ==
    IF Len(s) = 0
    THEN 0
    ELSE 16 * HexVal(SubSeq(s, 1, Len(s) - 1)) + unhex(At(s, Len(s)))

\* the loop of netip's parseIPv6 from position pos of s on, ip being the
\* bytes parsed so far and ellipsis the number of bytes before the "::"
\* (-1 when none was seen): [ok, pos, ip, ellipsis].  off is the number of
\* hex digits at pos, acc their value, v4 the rest of s read as IPv4.
RECURSIVE parseIPv6From(_, _, _, _)
parseIPv6From(s, pos, ip, ellipsis) ==
    LET bad == [ok |-> FALSE, pos |-> pos, ip |-> ip, ellipsis |-> ellipsis]
        i == Len(ip)
        bytes(acc) == ip \o <<acc \div 256, acc % 256>>
        group(off, after, chunk, v4) ==
            IF i >= 16
            THEN [ok |-> TRUE, pos |-> pos, ip |-> ip, ellipsis |-> ellipsis]
            ELSE IF off > 4           \* each group must have 4 or less digits
            THEN bad
            ELSE IF off = 0           \* each field must have at least one digit
            THEN bad
            ELSE IF Has(s, after, ".")                \* trailing embedded IPv4
            THEN IF (ellipsis < 0 /\ i # 12) \/ i + 4 > 16 \/ Len(v4) = 0
                 THEN bad
                 ELSE [ok |-> TRUE, pos |-> Len(s) + 1, ip |-> ip \o v4,
                       ellipsis |-> ellipsis]
            ELSE IF after > Len(s)    \* stop at end of string
            THEN [ok |-> TRUE, pos |-> after, ip |-> chunk, ellipsis |-> ellipsis]
            ELSE IF At(s, after) # ":"                \* unexpected character
            THEN bad
            ELSE IF after = Len(s)    \* colon must be followed by more
            THEN bad
            ELSE IF At(s, after + 1) # ":"
            THEN parseIPv6From(s, after + 1, chunk, ellipsis)
            ELSE IF ellipsis >= 0     \* multiple :: in address
            THEN bad
            ELSE IF after + 2 > Len(s)
            THEN [ok |-> TRUE, pos |-> after + 2, ip |-> chunk,
                  ellipsis |-> Len(chunk)]
            ELSE parseIPv6From(s, after + 2, chunk, Len(chunk))
        digits(off) ==
            group(off, pos + off, bytes(HexVal(SubSeq(s, pos, pos + off - 1))),
                  parseIPv4Fields(SubSeq(s, pos, Len(s))))
    IN  digits(HexRun(s, pos))

\* netip's parseIPv6
parseIPv6(in) ==
    LET parsed(s, zone, lead, r) ==
            LET i == Len(r.ip)
            IN  IF lead /\ Len(s) = 2                 \* only ellipsis
                THEN Addr(128, [k \in 1..16 |-> 0], zone)
                ELSE IF ~r.ok
                THEN NoAddr
                ELSE IF r.pos <= Len(s)               \* trailing garbage
                THEN NoAddr
                ELSE IF i < 16
                THEN IF r.ellipsis < 0                \* address string too short
                     THEN NoAddr
                     ELSE Addr(128,
                               SubSeq(r.ip, 1, r.ellipsis)
                                   \o [k \in 1..(16 - i) |-> 0]
                                   \o SubSeq(r.ip, r.ellipsis + 1, i),
                               zone)
                ELSE IF r.ellipsis >= 0               \* the :: must expand
                THEN NoAddr
                ELSE Addr(128, r.ip, zone)
        address(s, zone, lead) ==
            parsed(s, zone, lead,
                   parseIPv6From(s, IF lead THEN 3 ELSE 1, <<>>,
                                 IF lead THEN 0 ELSE -1))
        zoned(pct) ==
            IF pct = 0
            THEN address(in, "", Has(in, 1, ":") /\ Has(in, 2, ":"))
            ELSE IF pct = Len(in)     \* zone must be a non-empty string
            THEN NoAddr
            ELSE address(SubSeq(in, 1, pct - 1), SubSeq(in, pct + 1, Len(in)),
                         Has(in, 1, ":") /\ Has(in, 2, ":") /\ pct > 2)
    IN  zoned(Index(in, "%"))

\* netip.ParseAddr: the first of ".", ":" and "%" in the text decides
ParseAddr(s) ==
    LET first(i) ==
            IF i = 0
            THEN NoAddr               \* unable to parse IP
            ELSE IF At(s, i) = "."
            THEN parseIPv4(s)
            ELSE IF At(s, i) = ":"
            THEN parseIPv6(s)
            ELSE NoAddr               \* missing IPv6 address
    IN  first(MinOf({i \in 1..Len(s) : At(s, i) \in {".", ":", "%"}}))

\* net.ParseIP: the 16-byte form of the address, nil for text that is no
\* address or that names a zone
ParseIP(s) ==
    LET bytes(ip) == IF ~ip.ok \/ Len(ip.zone) # 0 THEN <<>> ELSE ip.as16
    IN  bytes(ParseAddr(s))

\* net.IP.To4: the four bytes of an IPv4 address, also of one held in its
\* 16-byte IPv4-mapped form; nil for any other
To4(ip) ==
    IF Len(ip) = 4
    THEN ip
    ELSE IF Len(ip) = 16 /\ SubSeq(ip, 1, 12) = v4InV6Prefix
    THEN SubSeq(ip, 13, 16)
    ELSE <<>>

\* net's dtoi on the whole of s: [ok, n]; no digit, a character that is no
\* digit, or a value of 0xFFFFFF and more, is a failure
RECURSIVE DtoiFrom(_, _, _)
DtoiFrom(s, i, n) ==
    IF i > Len(s)
    THEN [ok |-> i > 1, n |-> n]
    ELSE IF At(s, i) \notin Digits
    THEN [ok |-> FALSE, n |-> n]
    ELSE IF n * 10 + DigitVal(At(s, i)) >= 16777215
    THEN [ok |-> FALSE, n |-> 16777215]
    ELSE DtoiFrom(s, i + 1, n * 10 + DigitVal(At(s, i)))

dtoi(s) == DtoiFrom(s, 1, 0)

Pow2(k) ==
    CASE k = 0 -> 1 [] k = 1 -> 2 [] k = 2 -> 4 [] k = 3 -> 8 [] k = 4 -> 16
      [] k = 5 -> 32 [] k = 6 -> 64 [] k = 7 -> 128 [] k = 8 -> 256

\* how many of the `ones` leading mask bits fall into byte i
MaskBits(ones, i) ==
    IF ones - 8 * (i - 1) < 0
    THEN 0
    ELSE IF ones - 8 * (i - 1) > 8 THEN 8 ELSE ones - 8 * (i - 1)

\* net.CIDRMask: `ones` 1 bits followed by 0s up to `bits` bits, as bytes;
\* <<>> (nil) when bits is neither 32 nor 128 or ones is not in 0..bits
CIDRMask(ones, bits) ==
    IF bits # 32 /\ bits # 128
    THEN <<>>
    ELSE IF ones < 0 \/ ones > bits
    THEN <<>>
    ELSE [i \in 1..(bits \div 8) |-> 256 - Pow2(8 - MaskBits(ones, i))]

\* b & m for a byte m of a CIDR mask (leading ones only)
AndMask(b, m) == b - (b % (256 - m))

\* net.IP.Mask
Mask(ip, mask) ==
    LET and(p, m) ==
            IF Len(p) # Len(m)
            THEN <<>>
            ELSE [k \in 1..Len(p) |-> AndMask(p[k], m[k])]
    IN  and(IF Len(mask) = 4 /\ Len(ip) = 16 /\ SubSeq(ip, 1, 12) = v4InV6Prefix
            THEN SubSeq(ip, 13, 16)
            ELSE ip,
            IF Len(mask) = 16 /\ Len(ip) = 4 /\ \A k \in 1..12 : mask[k] = 255
            THEN SubSeq(mask, 13, 16)
            ELSE mask)

\* net.ParseCIDR: [ok, IP, Mask], the fields of the *IPNet
ParseCIDR(s) ==
    LET failed == [ok |-> FALSE, IP |-> <<>>, Mask |-> <<>>]
        network(ip, m) == [ok |-> TRUE, IP |-> Mask(ip, m), Mask |-> m]
        parsed(ipAddr, d) ==
            IF ~ipAddr.ok \/ Len(ipAddr.zone) # 0
            THEN failed
            ELSE IF ~d.ok \/ d.n > ipAddr.bitLen
            THEN failed
            ELSE network(ipAddr.as16, CIDRMask(d.n, ipAddr.bitLen))
        cut(i) ==
            IF i = 0
            THEN failed
            ELSE parsed(ParseAddr(SubSeq(s, 1, i - 1)),
                        dtoi(SubSeq(s, i + 1, Len(s))))
    IN  cut(Index(s, "/"))

\* net's networkNumberAndMask: [ip, m]
networkNumberAndMask(n) ==
    LET none == [ip |-> <<>>, m |-> <<>>]
        number(ip4) ==
            LET ip == IF Len(ip4) # 0 THEN ip4 ELSE n.IP
            IN  IF Len(ip4) = 0 /\ Len(n.IP) # 16
                THEN none
                ELSE IF Len(n.Mask) = 4
                THEN IF Len(ip) # 4 THEN none ELSE [ip |-> ip, m |-> n.Mask]
                ELSE IF Len(n.Mask) = 16
                THEN IF Len(ip) = 4
                     THEN [ip |-> ip, m |-> SubSeq(n.Mask, 13, 16)]
                     ELSE [ip |-> ip, m |-> n.Mask]
                ELSE none
    IN  number(To4(n.IP))

\* (*IPNet).Contains
Contains(n, ip) ==
    LET same(nm, x) ==
            LET p == IF Len(x) # 0 THEN x ELSE ip
            IN  /\ Len(p) = Len(nm.ip)
                /\ \A k \in 1..Len(p) :
                       AndMask(nm.ip[k], nm.m[k]) = AndMask(p[k], nm.m[k])
    IN  same(networkNumberAndMask(n), To4(ip))

-----------------------------------------------------------------------------
(* package regexp/syntax: the parser, under the flags syntax.Perl that     *)
(* regexp.Compile hands it.  A *Regexp is a record [Op, Rune, Min, Max,    *)
(* Sub, Flags, Cap]; Rune is the set of characters an operator that        *)
(* consumes one character accepts (a literal under (?i) accepts the        *)
(* characters that fold with it), Sub the sequence of operands.  The       *)
(* parser's limits on nesting depth (1000) and program size are beyond     *)
(* what a pattern of fewer than 1000 characters reaches.                   *)

\* the flags a pattern can switch, of which syntax.Perl sets OneLine
Perl == {"OneLine"}

Regexp(op, rune, min, max, sub, flags, cap) ==
    [Op |-> op, Rune |-> rune, Min |-> min, Max |-> max, Sub |-> sub,
     Flags |-> flags, Cap |-> cap]

newRegexp(op) == Regexp(op, {}, 0, 0, <<>>, {}, 0)

\* the marks the parser keeps on its stack for "(" and "|"
opPseudo == {"opLeftParen", "opVerticalBar"}

\* the operators that consume one character
isCharClass == {"OpLiteral", "OpCharClass", "OpAnyCharNotNL", "OpAnyChar"}

AlNum == Runes(48, 57) \cup Runes(65, 90) \cup Runes(97, 122)

isalnum(c) == c \in AlNum

\* regexp/syntax's IsWordChar: [0-9A-Za-z_]
IsWordChar(c) == c \in AlNum \cup {"_"}

\* unicode.SimpleFold: the code points that fold with a character, its own
\* among them
Orbit ==
    [c \in Char |->
        LET n == Ord[c]
        IN  {n}
            \cup (IF \/ 65 <= n /\ n <= 90
                     \/ 192 <= n /\ n <= 214
                     \/ 216 <= n /\ n <= 222
                  THEN {n + 32} ELSE {})
            \cup (IF \/ 97 <= n /\ n <= 122
                     \/ 224 <= n /\ n <= 246
                     \/ 248 <= n /\ n <= 254
                  THEN {n - 32} ELSE {})
            \cup (IF n \in {75, 107} THEN {8490} ELSE {})     \* U+212A KELVIN SIGN
            \cup (IF n \in {83, 115} THEN {383} ELSE {})      \* U+017F LONG S
            \cup (IF n = 181 THEN {924, 956} ELSE {})         \* Greek mu
            \cup (IF n \in {197, 229} THEN {8491} ELSE {})    \* U+212B ANGSTROM SIGN
            \cup (IF n = 223 THEN {7838} ELSE {})             \* U+1E9E SHARP S
            \cup (IF n = 255 THEN {376} ELSE {})]             \* U+0178

\* the characters that fold with a code point of lo..hi
Folded(lo, hi) == {c \in Char : \E n \in Orbit[c] : lo <= n /\ n <= hi}

\* appendRange, and appendFoldedRange under (?i)
appendRange(class, lo, hi, flags) ==
    class \cup (IF "FoldCase" \in flags THEN Folded(lo, hi) ELSE Runes(lo, hi))

\* the characters of a table of code ranges, folded or not
appendTable(table, fold) ==
    UNION {IF fold
           THEN Folded(table[k][1], table[k][2])
           ELSE Runes(table[k][1], table[k][2]) : k \in 1..Len(table)}

\* (*parser).appendGroup, g being [sign, class]
appendGroup(r, g, flags) ==
    LET tmp == appendTable(g.class, "FoldCase" \in flags)
    IN  r \cup (IF g.sign < 0 THEN Char \ tmp ELSE tmp)

\* perl_groups.go: perlGroup, by the letter behind the backslash
perlGroup(name) ==
    LET d == <<<<48, 57>>>>
        s == <<<<9, 10>>, <<12, 13>>, <<32, 32>>>>
        w == <<<<48, 57>>, <<65, 90>>, <<95, 95>>, <<97, 122>>>>
    IN  CASE name = "d" -> [sign |-> 1, class |-> d]
          [] name = "D" -> [sign |-> -1, class |-> d]
          [] name = "s" -> [sign |-> 1, class |-> s]
          [] name = "S" -> [sign |-> -1, class |-> s]
          [] name = "w" -> [sign |-> 1, class |-> w]
          [] name = "W" -> [sign |-> -1, class |-> w]
          [] OTHER -> [sign |-> 0, class |-> <<>>]

\* perl_groups.go: posixGroup, by the name between "[:" and ":]", a leading
\* "^" for the negated group
posixGroup(name) ==
    LET neg == Has(name, 1, "^")
        base == IF neg THEN SubSeq(name, 2, Len(name)) ELSE name
        sign == IF neg THEN -1 ELSE 1
        is(class) == [sign |-> sign, class |-> class]
    IN  CASE base = "alnum" -> is(<<<<48, 57>>, <<65, 90>>, <<97, 122>>>>)
          [] base = "alpha" -> is(<<<<65, 90>>, <<97, 122>>>>)
          [] base = "ascii" -> is(<<<<0, 127>>>>)
          [] base = "blank" -> is(<<<<9, 9>>, <<32, 32>>>>)
          [] base = "cntrl" -> is(<<<<0, 31>>, <<127, 127>>>>)
          [] base = "digit" -> is(<<<<48, 57>>>>)
          [] base = "graph" -> is(<<<<33, 126>>>>)
          [] base = "lower" -> is(<<<<97, 122>>>>)
          [] base = "print" -> is(<<<<32, 126>>>>)
          [] base = "punct" -> is(<<<<33, 47>>, <<58, 64>>, <<91, 96>>, <<123, 126>>>>)
          [] base = "space" -> is(<<<<9, 13>>, <<32, 32>>>>)
          [] base = "upper" -> is(<<<<65, 90>>>>)
          [] base = "word" -> is(<<<<48, 57>>, <<65, 90>>, <<95, 95>>, <<97, 122>>>>)
          [] base = "xdigit" -> is(<<<<48, 57>>, <<65, 70>>, <<97, 102>>>>)
          [] OTHER -> [sign |-> 0, class |-> <<>>]

\* unicode.Categories: the code points up to U+00FF of each table
Categories ==
    LET Cc == <<<<0, 31>>, <<127, 159>>>>
        Cf == <<<<173, 173>>>>
        Ll == <<<<97, 122>>, <<181, 181>>, <<223, 246>>, <<248, 255>>>>
        Lo == <<<<170, 170>>, <<186, 186>>>>
        Lu == <<<<65, 90>>, <<192, 214>>, <<216, 222>>>>
        Nd == <<<<48, 57>>>>
        No == <<<<178, 179>>, <<185, 185>>, <<188, 190>>>>
        Pc == <<<<95, 95>>>>
        Pd == <<<<45, 45>>>>
        Pe == <<<<41, 41>>, <<93, 93>>, <<125, 125>>>>
        Pf == <<<<187, 187>>>>
        Pi == <<<<171, 171>>>>
        Po == <<<<33, 35>>, <<37, 39>>, <<42, 42>>, <<44, 44>>, <<46, 47>>,
                <<58, 59>>, <<63, 64>>, <<92, 92>>, <<161, 161>>, <<167, 167>>,
                <<182, 183>>, <<191, 191>>>>
        Ps == <<<<40, 40>>, <<91, 91>>, <<123, 123>>>>
        Sc == <<<<36, 36>>, <<162, 165>>>>
        Sk == <<<<94, 94>>, <<96, 96>>, <<168, 168>>, <<175, 175>>, <<180, 180>>,
                <<184, 184>>>>
        Sm == <<<<43, 43>>, <<60, 62>>, <<124, 124>>, <<126, 126>>, <<172, 172>>,
                <<177, 177>>, <<215, 215>>, <<247, 247>>>>
        So == <<<<166, 166>>, <<169, 169>>, <<174, 174>>, <<176, 176>>>>
        Zs == <<<<32, 32>>, <<160, 160>>>>
    IN  [C |-> Cc \o Cf, Cc |-> Cc, Cf |-> Cf, Co |-> <<>>, Cs |-> <<>>,
         L |-> Ll \o Lo \o Lu, Ll |-> Ll, Lm |-> <<>>, Lo |-> Lo, Lt |-> <<>>,
         Lu |-> Lu,
         M |-> <<>>, Mc |-> <<>>, Me |-> <<>>, Mn |-> <<>>,
         N |-> Nd \o No, Nd |-> Nd, Nl |-> <<>>, No |-> No,
         P |-> Pc \o Pd \o Pe \o Pf \o Pi \o Po \o Ps, Pc |-> Pc, Pd |-> Pd,
         Pe |-> Pe, Pf |-> Pf, Pi |-> Pi, Po |-> Po, Ps |-> Ps,
         S |-> Sc \o Sk \o Sm \o So, Sc |-> Sc, Sk |-> Sk, Sm |-> Sm, So |-> So,
         Z |-> Zs, Zl |-> <<>>, Zp |-> <<>>, Zs |-> Zs]

\* unicode.FoldCategory: the code points outside a category that fold into it
FoldCategory ==
    [L |-> <<>>,
     Ll |-> <<<<65, 90>>, <<192, 214>>, <<216, 222>>>>,
     Lt |-> <<>>,
     Lu |-> <<<<97, 122>>, <<181, 181>>, <<223, 246>>, <<248, 255>>>>,
     M |-> <<>>,
     Mn |-> <<>>]

\* the names of unicode.Scripts (Unicode 15.0.0)
ScriptNames ==
    {"Adlam", "Ahom", "Anatolian_Hieroglyphs", "Arabic", "Armenian", "Avestan",
     "Balinese", "Bamum", "Bassa_Vah", "Batak", "Bengali", "Bhaiksuki",
     "Bopomofo", "Brahmi", "Braille", "Buginese", "Buhid",
     "Canadian_Aboriginal", "Carian", "Caucasian_Albanian", "Chakma", "Cham",
     "Cherokee", "Chorasmian", "Common", "Coptic", "Cuneiform", "Cypriot",
     "Cypro_Minoan", "Cyrillic", "Deseret", "Devanagari", "Dives_Akuru",
     "Dogra", "Duployan", "Egyptian_Hieroglyphs", "Elbasan", "Elymaic",
     "Ethiopic", "Georgian", "Glagolitic", "Gothic", "Grantha", "Greek",
     "Gujarati", "Gunjala_Gondi", "Gurmukhi", "Han", "Hangul",
     "Hanifi_Rohingya", "Hanunoo", "Hatran", "Hebrew", "Hiragana",
     "Imperial_Aramaic", "Inherited", "Inscriptional_Pahlavi",
     "Inscriptional_Parthian", "Javanese", "Kaithi", "Kannada", "Katakana",
     "Kawi", "Kayah_Li", "Kharoshthi", "Khitan_Small_Script", "Khmer",
     "Khojki", "Khudawadi", "Lao", "Latin", "Lepcha", "Limbu", "Linear_A",
     "Linear_B", "Lisu", "Lycian", "Lydian", "Mahajani", "Makasar",
     "Malayalam", "Mandaic", "Manichaean", "Marchen", "Masaram_Gondi",
     "Medefaidrin", "Meetei_Mayek", "Mende_Kikakui", "Meroitic_Cursive",
     "Meroitic_Hieroglyphs", "Miao", "Modi", "Mongolian", "Mro", "Multani",
     "Myanmar", "Nabataean", "Nag_Mundari", "Nandinagari", "New_Tai_Lue",
     "Newa", "Nko", "Nushu", "Nyiakeng_Puachue_Hmong", "Ogham", "Ol_Chiki",
     "Old_Hungarian", "Old_Italic", "Old_North_Arabian", "Old_Permic",
     "Old_Persian", "Old_Sogdian", "Old_South_Arabian", "Old_Turkic",
     "Old_Uyghur", "Oriya", "Osage", "Osmanya", "Pahawh_Hmong", "Palmyrene",
     "Pau_Cin_Hau", "Phags_Pa", "Phoenician", "Psalter_Pahlavi", "Rejang",
     "Runic", "Samaritan", "Saurashtra", "Sharada", "Shavian", "Siddham",
     "SignWriting", "Sinhala", "Sogdian", "Sora_Sompeng", "Soyombo",
     "Sundanese", "Syloti_Nagri", "Syriac", "Tagalog", "Tagbanwa", "Tai_Le",
     "Tai_Tham", "Tai_Viet", "Takri", "Tamil", "Tangsa", "Tangut", "Telugu",
     "Thaana", "Thai", "Tibetan", "Tifinagh", "Tirhuta", "Toto", "Ugaritic",
     "Vai", "Vithkuqi", "Wancho", "Warang_Citi", "Yezidi", "Yi",
     "Zanabazar_Square"}

\* unicode.Scripts: the code points up to U+00FF of a script's table; of
\* these, letters are Latin and all others Common
Scripts(name) ==
    LET Latin == <<<<65, 90>>, <<97, 122>>, <<170, 170>>, <<186, 186>>,
                   <<192, 214>>, <<216, 246>>, <<248, 255>>>>
        Common == <<<<0, 64>>, <<91, 96>>, <<123, 169>>, <<171, 185>>,
                    <<187, 191>>, <<215, 215>>, <<247, 247>>>>
    IN  CASE name = "Latin" -> Latin
          [] name = "Common" -> Common
          [] OTHER -> <<>>

\* unicode.FoldScript, of the code points up to U+00FF: the micro sign folds
\* into Greek
FoldScript ==
    [Common |-> <<>>, Greek |-> <<<<181, 181>>>>, Inherited |-> <<>>]

\* regexp/syntax's unicodeTable: [ok, tab, fold, folds], folds telling
\* whether a fold table exists
unicodeTable(name) ==
    LET found(tab, folds) ==
            [ok |-> TRUE, tab |-> tab,
             fold |-> IF name \in DOMAIN folds THEN folds[name] ELSE <<>>,
             folds |-> name \in DOMAIN folds]
        lookup(categories, scripts) ==
            IF name = "Any"
            THEN [ok |-> TRUE, tab |-> <<<<0, 1114111>>>>,
                  fold |-> <<<<0, 1114111>>>>, folds |-> TRUE]
            ELSE IF name \in DOMAIN categories
            THEN found(categories[name], FoldCategory)
            ELSE IF name \in scripts
            THEN found(Scripts(name), FoldScript)
            ELSE [ok |-> FALSE, tab |-> <<>>, fold |-> <<>>, folds |-> FALSE]
    IN  lookup(Categories, ScriptNames)

\* (*parser).parseUnicodeClass on the "\p" or "\P" at position t of s:
\* [ok, i, class], class being the characters to add
parseUnicodeClass(s, t, flags) ==
    LET bad == [ok |-> FALSE, i |-> t, class |-> {}]
        braces == Has(s, t + 2, "{")
        class(tab, sign, next) ==
            LET is(tmp) ==
                    [ok |-> TRUE, i |-> next,
                     class |-> IF sign > 0 THEN tmp ELSE Char \ tmp]
            IN  IF ~tab.ok
                THEN bad
                ELSE is(appendTable(IF "FoldCase" \notin flags \/ ~tab.folds
                                    THEN tab.tab
                                    ELSE tab.tab \o tab.fold,
                                    FALSE))
        named(seq, neg, next) ==
            class(unicodeTable(IF neg THEN SubSeq(seq, 2, Len(seq)) ELSE seq),
                  (IF At(s, t + 1) = "P" THEN -1 ELSE 1) * (IF neg THEN -1 ELSE 1),
                  next)
        sequence(seq, next) == named(seq, Has(seq, 1, "^"), next)
        name(end) ==
            IF braces /\ end = 0
            THEN bad                  \* invalid character class range
            ELSE IF ~braces /\ t + 2 > Len(s)
            THEN bad
            ELSE sequence(IF braces THEN SubSeq(s, t + 3, end - 1) ELSE At(s, t + 2),
                          IF braces THEN end + 1 ELSE t + 3)
    IN  name(IndexFrom(s, "}", t))

\* the loop of parseEscape's "\x{...}" from position t on, r being the value
\* and nhex the number of digits read: [ok, r, i]
RECURSIVE parseHexBraces(_, _, _, _)
parseHexBraces(s, t, r, nhex) ==
    LET bad == [ok |-> FALSE, r |-> 0, i |-> t]
        digit(v) ==
            IF v < 0
            THEN bad
            ELSE IF r * 16 + v > 1114111          \* unicode.MaxRune
            THEN bad
            ELSE parseHexBraces(s, t + 1, r * 16 + v, nhex + 1)
    IN  IF t > Len(s)
        THEN bad
        ELSE IF At(s, t) = "}"
        THEN IF nhex = 0 THEN bad ELSE [ok |-> TRUE, r |-> r, i |-> t + 1]
        ELSE digit(unhex(At(s, t)))

\* (*parser).parseEscape on the backslash at position t of s: [ok, r, i], r
\* being the code point the escape stands for and i the position behind it
parseEscape(s, t) ==
    LET bad == [ok |-> FALSE, r |-> 0, i |-> t]
        is(r, i) == [ok |-> TRUE, r |-> r, i |-> i]
        c == At(s, t + 1)
        octal(k) == k <= Len(s) /\ At(s, k) \in {"0", "1", "2", "3", "4", "5", "6", "7"}
        octals(o1, d2, d3) ==
            IF ~octal(t + 2)
            THEN is(o1, t + 2)
            ELSE IF ~octal(t + 3)
            THEN is(o1 * 8 + d2, t + 3)
            ELSE is((o1 * 8 + d2) * 8 + d3, t + 4)
        hex(x, y) == IF x < 0 \/ y < 0 THEN bad ELSE is(x * 16 + y, t + 4)
        itself(r) ==
            IF r < 128 /\ ~isalnum(c)
            THEN is(r, t + 2)         \* escaped non-word characters are themselves
            ELSE bad                  \* invalid escape sequence
    IN  IF t + 1 > Len(s)
        THEN bad                      \* trailing backslash at end of expression
        ELSE IF c \in {"1", "2", "3", "4", "5", "6", "7"} /\ ~octal(t + 2)
        THEN bad                      \* a backreference; not supported
        ELSE IF c \in {"0", "1", "2", "3", "4", "5", "6", "7"}
        THEN octals(DigitVal(c), DigitVal(At(s, t + 2)), DigitVal(At(s, t + 3)))
        ELSE IF c = "x"
        THEN IF t + 2 > Len(s)
             THEN bad
             ELSE IF At(s, t + 2) = "{"
             THEN parseHexBraces(s, t + 3, 0, 0)
             ELSE IF t + 3 > Len(s)
             THEN bad
             ELSE hex(unhex(At(s, t + 2)), unhex(At(s, t + 3)))
        ELSE IF c = "a" THEN is(7, t + 2)
        ELSE IF c = "f" THEN is(12, t + 2)
        ELSE IF c = "n" THEN is(10, t + 2)
        ELSE IF c = "r" THEN is(13, t + 2)
        ELSE IF c = "t" THEN is(9, t + 2)
        ELSE IF c = "v" THEN is(11, t + 2)
        ELSE itself(Ord[c])

\* (*parser).parseClassChar at position t of s: [ok, r, i]
parseClassChar(s, t) ==
    IF t > Len(s)
    THEN [ok |-> FALSE, r |-> 0, i |-> t]       \* missing closing ]
    ELSE IF At(s, t) = "\\"
    THEN parseEscape(s, t)
    ELSE [ok |-> TRUE, r |-> Ord[At(s, t)], i |-> t + 1]

\* (*parser).parseRange at position t of s: [ok, lo, hi, i]
parseRange(s, t) ==
    LET bad == [ok |-> FALSE, lo |-> 0, hi |-> 0, i |-> t]
        upTo(lo, hi) ==
            IF ~hi.ok
            THEN bad
            ELSE IF hi.r < lo.r       \* invalid character class range
            THEN bad
            ELSE [ok |-> TRUE, lo |-> lo.r, hi |-> hi.r, i |-> hi.i]
        from(lo) ==
            IF ~lo.ok
            THEN bad
            ELSE IF lo.i + 1 > Len(s) \/ At(s, lo.i) # "-" \/ At(s, lo.i + 1) = "]"
            THEN [ok |-> TRUE, lo |-> lo.r, hi |-> lo.r, i |-> lo.i]
            ELSE upTo(lo, parseClassChar(s, lo.i + 1))
    IN  from(parseClassChar(s, t))

\* the first position from `from` on at which ":]" begins in s, 0 if none
RECURSIVE IndexColonBracket(_, _)
IndexColonBracket(s, from) ==
    IF from + 1 > Len(s)
    THEN 0
    ELSE IF At(s, from) = ":" /\ At(s, from + 1) = "]"
    THEN from
    ELSE IndexColonBracket(s, from + 1)

\* the loop of parseClass from position t of s on, class being the
\* characters collected and first telling that no member was read yet:
\* [ok, i, class], i being the position behind the closing "]"
RECURSIVE parseClassFrom(_, _, _, _, _)
parseClassFrom(s, t, class, first, flags) ==
    LET bad == [ok |-> FALSE, i |-> t, class |-> class]
        more(i, members) == parseClassFrom(s, i, members, FALSE, flags)
        group(g, i) == more(i, appendGroup(class, g, flags))
        range(rng) ==
            IF ~rng.ok                \* also a missing closing ]
            THEN bad
            ELSE more(rng.i, appendRange(class, rng.lo, rng.hi, flags))
        perl(g) ==
            IF Has(s, t, "\\") /\ t + 1 <= Len(s) /\ g.sign # 0
            THEN group(g, t + 2)
            ELSE range(parseRange(s, t))
        unicode(uni) ==
            IF ~uni.ok THEN bad ELSE more(uni.i, class \cup uni.class)
        posix(g, colon) ==
            IF g.sign = 0
            THEN bad                  \* invalid character class range
            ELSE group(g, colon + 2)
        member(colon) ==
            IF Len(s) - t + 1 > 2 /\ At(s, t) = "[" /\ At(s, t + 1) = ":"
               /\ colon # 0           \* a POSIX [:alnum:] class
            THEN posix(posixGroup(SubSeq(s, t + 2, colon - 1)), colon)
            ELSE IF Has(s, t, "\\") /\ (Has(s, t + 1, "p") \/ Has(s, t + 1, "P"))
            THEN unicode(parseUnicodeClass(s, t, flags))
            ELSE perl(perlGroup(At(s, t + 1)))
    IN  IF Has(s, t, "]") /\ ~first
        THEN [ok |-> TRUE, i |-> t + 1, class |-> class]
        ELSE member(IndexColonBracket(s, t + 2))

\* (*parser).parseClass on the "[" at position t of s: [ok, i, re]
parseClass(s, t, flags) ==
    LET class(neg, r) ==
            [ok |-> r.ok, i |-> r.i,
             re |-> Regexp("OpCharClass", IF neg THEN Char \ r.class ELSE r.class,
                           0, 0, <<>>, flags, 0)]
        members(neg) ==
            class(neg, parseClassFrom(s, IF neg THEN t + 2 ELSE t + 1, {}, TRUE, flags))
    IN  members(Has(s, t + 1, "^"))

\* (*parser).parseInt at position t of s: [ok, n, i]; a value above 1000
\* reads as 1001, which no repeat count may be
RECURSIVE parseIntFrom(_, _, _)
parseIntFrom(s, t, n) ==
    IF t <= Len(s) /\ At(s, t) \in Digits
    THEN LET m == n * 10 + DigitVal(At(s, t))
         IN  parseIntFrom(s, t + 1, IF m > 1000 THEN 1001 ELSE m)
    ELSE [ok |-> TRUE, n |-> n, i |-> t]

parseInt(s, t) ==
    IF t > Len(s) \/ At(s, t) \notin Digits
    THEN [ok |-> FALSE, n |-> 0, i |-> t]
    ELSE IF Has(s, t, "0") /\ t + 1 <= Len(s) /\ At(s, t + 1) \in Digits
    THEN [ok |-> FALSE, n |-> 0, i |-> t]       \* disallow leading zeros
    ELSE parseIntFrom(s, t, 0)

\* (*parser).parseRepeat on the "{" at position t of s: [ok, min, max, i];
\* max is -1 when there is none
parseRepeat(s, t) ==
    LET bad == [ok |-> FALSE, min |-> 0, max |-> 0, i |-> t]
        is(min, max, i) ==
            IF Has(s, i, "}")
            THEN [ok |-> TRUE, min |-> min, max |-> max, i |-> i + 1]
            ELSE bad
        upTo(lo, hi) == IF ~hi.ok THEN bad ELSE is(lo.n, hi.n, hi.i)
        from(lo) ==
            IF ~lo.ok
            THEN bad
            ELSE IF lo.i > Len(s)
            THEN bad
            ELSE IF At(s, lo.i) # ","
            THEN is(lo.n, lo.n, lo.i)
            ELSE IF lo.i + 1 > Len(s)
            THEN bad
            ELSE IF At(s, lo.i + 1) = "}"
            THEN is(lo.n, -1, lo.i + 1)
            ELSE upTo(lo, parseInt(s, lo.i + 1))
    IN  from(parseInt(s, t + 1))

\* regexp/syntax's repeatIsValid
RECURSIVE repeatIsValid(_, _)
repeatIsValid(re, n) ==
    LET m == IF re.Max < 0 THEN re.Min ELSE re.Max
        rest == IF re.Op = "OpRepeat" /\ m > 0 THEN n \div m ELSE n
    IN  IF re.Op = "OpRepeat" /\ re.Max = 0
        THEN TRUE
        ELSE IF re.Op = "OpRepeat" /\ m > n
        THEN FALSE
        ELSE \A k \in 1..Len(re.Sub) : repeatIsValid(re.Sub[k], rest)

\* (*parser).repeat: the operator op, read up to position `after` of s, put
\* on the top of the stack: [ok, i, stack]
repeat(op, min, max, s, after, stack, lastRepeat) ==
    LET bad == [ok |-> FALSE, i |-> after, stack |-> stack]
        n == Len(stack)
        re == Regexp(op, {}, min, max, <<stack[n]>>, {}, 0)
    IN  IF lastRepeat
        THEN bad                      \* invalid nested repetition operator
        ELSE IF n = 0
        THEN bad                      \* missing argument to repetition operator
        ELSE IF stack[n].Op \in opPseudo
        THEN bad
        ELSE IF op = "OpRepeat" /\ (min >= 2 \/ max >= 2) /\ ~repeatIsValid(re, 1000)
        THEN bad                      \* invalid repeat count
        ELSE [ok |-> TRUE,
              i |-> IF Has(s, after, "?") THEN after + 1 ELSE after,
              stack |-> [stack EXCEPT ![n] = re]]

\* the position of the topmost "(" or "|" mark of the stack, 0 if none
topPseudo(stack, i) ==
    LET at == {k \in 1..i : stack[k].Op \in opPseudo}
    IN  IF at = {} THEN 0 ELSE MaxOf(at)

\* (*parser).collapse
collapse(subs, op) ==
    IF Len(subs) = 1 THEN subs[1] ELSE Regexp(op, {}, 0, 0, subs, {}, 0)

\* (*parser).concat: the stack above the topmost mark made one concatenation
concat(stack) ==
    LET i == topPseudo(stack, Len(stack))
        subs == SubSeq(stack, i + 1, Len(stack))
    IN  Append(SubSeq(stack, 1, i),
               IF Len(subs) = 0
               THEN newRegexp("OpEmptyMatch")
               ELSE collapse(subs, "OpConcat"))

\* (*parser).alternate: the stack above the topmost mark made one alternation
alternate(stack) ==
    LET i == topPseudo(stack, Len(stack))
        subs == SubSeq(stack, i + 1, Len(stack))
    IN  Append(SubSeq(stack, 1, i),
               IF Len(subs) = 0
               THEN newRegexp("OpNoMatch")
               ELSE collapse(subs, "OpAlternate"))

\* (*parser).swapVerticalBar: [swapped, stack]
swapVerticalBar(stack) ==
    LET n == Len(stack)
    IN  IF n >= 2 /\ stack[n - 1].Op = "opVerticalBar"
        THEN [swapped |-> TRUE,
              stack |-> [stack EXCEPT ![n - 1] = stack[n], ![n] = stack[n - 1]]]
        ELSE [swapped |-> FALSE, stack |-> stack]

\* (*parser).parseVerticalBar
parseVerticalBar(stack) ==
    LET bar(sw) ==
            IF sw.swapped
            THEN sw.stack
            ELSE Append(sw.stack, newRegexp("opVerticalBar"))
    IN  bar(swapVerticalBar(concat(stack)))

\* the stack with its topmost group closed: concat, the "|" mark dropped,
\* alternate
closeGroup(stack) ==
    LET barDropped(sw) ==
            alternate(IF sw.swapped
                      THEN SubSeq(sw.stack, 1, Len(sw.stack) - 1)
                      ELSE sw.stack)
    IN  barDropped(swapVerticalBar(concat(stack)))

\* (*parser).parseRightParen: [ok, stack, flags]
parseRightParen(stack, flags) ==
    LET bad == [ok |-> FALSE, stack |-> stack, flags |-> flags]
        group(below, re2, re1) ==
            IF re2.Op # "opLeftParen"
            THEN bad
            ELSE [ok |-> TRUE,
                  stack |-> IF re2.Cap = 0
                            THEN Append(below, re1)
                            ELSE Append(below,
                                     Regexp("OpCapture", {}, 0, 0, <<re1>>, {},
                                            re2.Cap)),
                  flags |-> re2.Flags]
        closed(st, n) ==
            IF n < 2
            THEN bad                  \* unexpected )
            ELSE group(SubSeq(st, 1, n - 2), st[n - 1], st[n])
        top(st) == closed(st, Len(st))
    IN  top(closeGroup(stack))

\* regexp/syntax's isValidCaptureName
isValidCaptureName(name) ==
    /\ Len(name) > 0
    /\ \A i \in 1..Len(name) : At(name, i) = "_" \/ isalnum(At(name, i))

\* the flag loop of parsePerlFlags from position t of s on, sign telling
\* whether a "-" was read and sawFlag whether a flag followed it:
\* [ok, i, stack, flags]
RECURSIVE parsePerlFlagsFrom(_, _, _, _, _, _, _)
parsePerlFlagsFrom(s, t, stack, old, flags, sign, sawFlag) ==
    LET bad == [ok |-> FALSE, i |-> t, stack |-> stack, flags |-> old]
        c == At(s, t)
        set(f) == IF sign < 0 THEN flags \ {f} ELSE flags \cup {f}
        clear(f) == IF sign < 0 THEN flags \cup {f} ELSE flags \ {f}
    IN  IF t > Len(s)
        THEN bad                      \* missing closing )
        ELSE IF c = "i"
        THEN parsePerlFlagsFrom(s, t + 1, stack, old, set("FoldCase"), sign, TRUE)
        ELSE IF c = "m"
        THEN parsePerlFlagsFrom(s, t + 1, stack, old, clear("OneLine"), sign, TRUE)
        ELSE IF c = "s"
        THEN parsePerlFlagsFrom(s, t + 1, stack, old, set("DotNL"), sign, TRUE)
        ELSE IF c = "U"
        THEN parsePerlFlagsFrom(s, t + 1, stack, old, set("NonGreedy"), sign, TRUE)
        ELSE IF c = "-"
        THEN IF sign < 0
             THEN bad
             ELSE parsePerlFlagsFrom(s, t + 1, stack, old, flags, -1, FALSE)
        ELSE IF c = ":" \/ c = ")"
        THEN IF sign < 0 /\ ~sawFlag
             THEN bad
             ELSE [ok |-> TRUE, i |-> t + 1,
                   stack |-> IF c = ":"
                             THEN Append(stack,
                                      Regexp("opLeftParen", {}, 0, 0, <<>>, old, 0))
                             ELSE stack,
                   flags |-> flags]
        ELSE bad                      \* invalid or unsupported Perl syntax

\* (*parser).parsePerlFlags on the "(?" at position t of s:
\* [ok, i, stack, flags]
parsePerlFlags(s, t, stack, flags) ==
    LET len == Len(s) - t + 1
        startsWithP == len > 4 /\ At(s, t + 2) = "P" /\ At(s, t + 3) = "<"
        startsWithName == len > 3 /\ At(s, t + 2) = "<"
        exprStartPos == IF startsWithName THEN t + 3 ELSE t + 4
        end == IndexFrom(s, ">", t)
        name == SubSeq(s, exprStartPos, end - 1)
    IN  IF startsWithP \/ startsWithName
        THEN IF end = 0 \/ ~isValidCaptureName(name)
             THEN [ok |-> FALSE, i |-> t, stack |-> stack, flags |-> flags]
             ELSE [ok |-> TRUE, i |-> end + 1,
                   stack |-> Append(stack,
                                 Regexp("opLeftParen", {}, 0, 0, <<>>, flags, 1)),
                   flags |-> flags]
        ELSE parsePerlFlagsFrom(s, t + 2, stack, flags, flags, 1, FALSE)

\* (*parser).literal: the literal of code point r, under (?i) with all that
\* folds with it
literal(r, flags) ==
    Regexp("OpLiteral", appendRange({}, r, r, flags), 0, 0, <<>>, flags, 0)

\* the literals of the text between "\Q" and "\E"
literals(s, t, end, flags) ==
    [k \in 1..(end - t + 1) |-> literal(Ord[At(s, t + k - 1)], flags)]

\* the first position from `from` on at which "\E" begins in s, 0 if none
IndexBackslashE(s, from) ==
    LET at == {i \in from..(Len(s) - 1) : At(s, i) = "\\" /\ At(s, i + 1) = "E"}
    IN  IF at = {} THEN 0 ELSE MinOf(at)

\* one turn of the loop of parse, at position t of s with the stack, the
\* flags and whether the last item was a repetition:
\* [ok, t, stack, flags, lastRepeat]
parseStep(s, t, stack, flags, lastRepeat) ==
    LET bad == [ok |-> FALSE, t |-> t, stack |-> stack, flags |-> flags,
                lastRepeat |-> FALSE]
        next(i, stk, fl, lr) ==
            [ok |-> TRUE, t |-> i, stack |-> stk, flags |-> fl, lastRepeat |-> lr]
        c == At(s, t)
        e == At(s, t + 1)
        push(re, i) == next(i, Append(stack, re), flags, FALSE)
        op(o, i) == push(Regexp(o, {}, 0, 0, <<>>, flags, 0), i)
        char(o, rune, i) == push(Regexp(o, rune, 0, 0, <<>>, flags, 0), i)
        lit(r, i) == push(literal(r, flags), i)
        perlFlags(pf) ==
            IF ~pf.ok THEN bad ELSE next(pf.i, pf.stack, pf.flags, FALSE)
        rightParen(rp) ==
            IF ~rp.ok THEN bad ELSE next(t + 1, rp.stack, rp.flags, FALSE)
        class(cl) == IF ~cl.ok THEN bad ELSE push(cl.re, cl.i)
        repeated(rep) == IF ~rep.ok THEN bad ELSE next(rep.i, rep.stack, flags, TRUE)
        times(o, min, max, after) ==
            repeated(repeat(o, min, max, s, after, stack, lastRepeat))
        counted(pr) ==
            IF ~pr.ok
            THEN lit(Ord[c], t + 1)   \* { is a literal
            ELSE IF pr.min > 1000 \/ pr.max > 1000 \/ (pr.max >= 0 /\ pr.min > pr.max)
            THEN bad                  \* invalid repeat count
            ELSE times("OpRepeat", pr.min, pr.max, pr.i)
        quote(end, i) ==
            next(i, stack \o literals(s, t + 2, end, flags), flags, FALSE)
        quoted(qe) ==
            quote(IF qe = 0 THEN Len(s) ELSE qe - 1, IF qe = 0 THEN Len(s) + 1 ELSE qe + 2)
        unicode(uni) ==
            IF ~uni.ok THEN bad ELSE char("OpCharClass", uni.class, uni.i)
        escape(esc) == IF ~esc.ok THEN bad ELSE lit(esc.r, esc.i)
        perl(g) ==
            IF t + 1 <= Len(s) /\ g.sign # 0
            THEN char("OpCharClass", appendGroup({}, g, flags), t + 2)
            ELSE escape(parseEscape(s, t))
    IN  CASE c = "(" ->
               IF Has(s, t + 1, "?")
               THEN perlFlags(parsePerlFlags(s, t, stack, flags))
               ELSE push(Regexp("opLeftParen", {}, 0, 0, <<>>, flags, 1), t + 1)
          [] c = "|" -> next(t + 1, parseVerticalBar(stack), flags, FALSE)
          [] c = ")" -> rightParen(parseRightParen(stack, flags))
          [] c = "^" ->
               op(IF "OneLine" \in flags THEN "OpBeginText" ELSE "OpBeginLine", t + 1)
          [] c = "$" ->
               op(IF "OneLine" \in flags THEN "OpEndText" ELSE "OpEndLine", t + 1)
          [] c = "." ->
               IF "DotNL" \in flags
               THEN char("OpAnyChar", Char, t + 1)
               ELSE char("OpAnyCharNotNL", Char \ {"\n"}, t + 1)
          [] c = "[" -> class(parseClass(s, t, flags))
          [] c \in {"*", "+", "?"} ->
               times(CASE c = "*" -> "OpStar" [] c = "+" -> "OpPlus"
                       [] OTHER -> "OpQuest",
                     0, 0, t + 1)
          [] c = "{" -> counted(parseRepeat(s, t))
          [] c = "\\" ->
               IF t + 1 <= Len(s) /\ e = "A"
               THEN op("OpBeginText", t + 2)
               ELSE IF t + 1 <= Len(s) /\ e = "b"
               THEN op("OpWordBoundary", t + 2)
               ELSE IF t + 1 <= Len(s) /\ e = "B"
               THEN op("OpNoWordBoundary", t + 2)
               ELSE IF t + 1 <= Len(s) /\ e = "C"
               THEN bad               \* any byte; not supported
               ELSE IF t + 1 <= Len(s) /\ e = "Q"
               THEN quoted(IndexBackslashE(s, t + 2))
               ELSE IF t + 1 <= Len(s) /\ e = "z"
               THEN op("OpEndText", t + 2)
               ELSE IF t + 1 <= Len(s) /\ e \in {"p", "P"}
               THEN unicode(parseUnicodeClass(s, t, flags))
               ELSE perl(perlGroup(e))
          [] OTHER -> lit(Ord[c], t + 1)

\* up to n turns of the loop of parse from the state st of parseStep; the
\* loop ends at the end of s or at an error
RECURSIVE parseLoop(_, _, _)
parseLoop(s, st, n) ==
    IF ~st.ok \/ st.t > Len(s)
    THEN st
    ELSE IF n <= 1
    THEN parseStep(s, st.t, st.stack, st.flags, st.lastRepeat)
    ELSE LET half == parseLoop(s, st, n \div 2)
         IN  IF half.ok THEN parseLoop(s, half, n - (n \div 2)) ELSE half

\* regexp/syntax's parse: the loop, which reads at least one character a
\* turn, and the closing of the pattern: [ok, prog]
Parse(s, flags) ==
    LET closed(end) ==
            IF Len(end) # 1                        \* a missing )
            THEN [ok |-> FALSE, prog |-> newRegexp("OpNoMatch")]
            ELSE [ok |-> TRUE, prog |-> end[1]]
        parsed(st) ==
            IF ~st.ok
            THEN [ok |-> FALSE, prog |-> newRegexp("OpNoMatch")]
            ELSE closed(closeGroup(st.stack))
    IN  parsed(parseLoop(s, [ok |-> TRUE, t |-> 1, stack |-> <<>>, flags |-> flags,
                             lastRepeat |-> FALSE], Len(s)))

\* regexp.Compile: [ok, prog]
Compile(expr) == Parse(expr, Perl)

-----------------------------------------------------------------------------
(* package regexp: matching.  A match is computed on the parsed pattern:   *)
(* for a set of positions of s at which a match may start, the set of      *)
(* positions at which it may end.                                          *)

\* whether the empty-width assertion op holds at position q of s
EmptyOpAt(op, s, q) ==
    LET before == q > 1 /\ IsWordChar(At(s, q - 1))
        after == q <= Len(s) /\ IsWordChar(At(s, q))
    IN  CASE op = "OpBeginText" -> q = 1
          [] op = "OpEndText" -> q = Len(s) + 1
          [] op = "OpBeginLine" -> q = 1 \/ At(s, q - 1) = "\n"
          [] op = "OpEndLine" -> q = Len(s) + 1 \/ At(s, q) = "\n"
          [] op = "OpWordBoundary" -> before # after
          [] op = "OpNoWordBoundary" -> before = after

RECURSIVE MatchEnds(_, _, _)
RECURSIVE MatchConcat(_, _, _, _, _)
RECURSIVE MatchTimes(_, _, _, _)
RECURSIVE MatchUpTo(_, _, _, _)

\* where a match of re that starts at a position of P may end
MatchEnds(re, s, P) ==
    IF P = {}
    THEN {}
    ELSE IF re.Op \in isCharClass
    THEN {q + 1 : q \in {q \in P : q <= Len(s) /\ At(s, q) \in re.Rune}}
    ELSE IF re.Op = "OpEmptyMatch"
    THEN P
    ELSE IF re.Op = "OpNoMatch"
    THEN {}
    ELSE IF re.Op = "OpCapture"
    THEN MatchEnds(re.Sub[1], s, P)
    ELSE IF re.Op = "OpConcat"
    THEN MatchConcat(re.Sub, 1, Len(re.Sub), s, P)
    ELSE IF re.Op = "OpAlternate"
    THEN UNION {MatchEnds(re.Sub[k], s, P) : k \in 1..Len(re.Sub)}
    ELSE IF re.Op = "OpStar"
    THEN MatchUpTo(re.Sub[1], s, P, Len(s) + 1)
    ELSE IF re.Op = "OpPlus"
    THEN MatchUpTo(re.Sub[1], s, MatchEnds(re.Sub[1], s, P), Len(s) + 1)
    ELSE IF re.Op = "OpQuest"
    THEN P \cup MatchEnds(re.Sub[1], s, P)
    ELSE IF re.Op = "OpRepeat"
    THEN LET Q == MatchTimes(re.Sub[1], s, P, re.Min)
         IN  IF re.Max < 0
             THEN MatchUpTo(re.Sub[1], s, Q, Len(s) + 1)
             ELSE IF re.Max - re.Min < Len(s) + 1
             THEN MatchUpTo(re.Sub[1], s, Q, re.Max - re.Min)
             ELSE MatchUpTo(re.Sub[1], s, Q, Len(s) + 1)
    ELSE {q \in P : EmptyOpAt(re.Op, s, q)}

\* the operands subs[lo..hi] one after the other
MatchConcat(subs, lo, hi, s, P) ==
    IF lo = hi
    THEN MatchEnds(subs[lo], s, P)
    ELSE LET mid == (lo + hi) \div 2
             Q == MatchConcat(subs, lo, mid, s, P)
         IN  IF Q = {} THEN {} ELSE MatchConcat(subs, mid + 1, hi, s, Q)

\* sub n times over
MatchTimes(sub, s, P, n) ==
    IF n = 0
    THEN P
    ELSE IF n = 1
    THEN MatchEnds(sub, s, P)
    ELSE LET Q == MatchTimes(sub, s, P, n \div 2)
         IN  IF Q = {} THEN {} ELSE MatchTimes(sub, s, Q, n - (n \div 2))

\* sub at most n times over; the Len(s) + 1 positions of s bound the times
\* that add an end
MatchUpTo(sub, s, P, n) ==
    IF n = 0 \/ P = {}
    THEN P
    ELSE IF n = 1
    THEN P \cup MatchEnds(sub, s, P)
    ELSE LET Q == MatchUpTo(sub, s, P, n \div 2)
         IN  IF MatchEnds(sub, s, Q) \subseteq Q
             THEN Q
             ELSE MatchUpTo(sub, s, Q, n - (n \div 2))

\* (*Regexp).MatchString: a match anywhere within s
MatchString(prog, s) == MatchEnds(prog, s, 1..(Len(s) + 1)) # {}

-----------------------------------------------------------------------------
(* src/main.go: the helpers.  A request is [RemoteAddr, XRealIp,           *)
(* XForwardedFor, URL]; a header that is absent reads as "", as            *)
(* http.Header.Get gives it.                                               *)

\* CreateConfig
CreateConfig ==
    [Enabled |-> FALSE,
     Filename |-> "",
     TriggerFilename |-> "",
     HttpResponseCode |-> 503,
     HttpContentType |-> "text/html; charset=utf-8",
     IpAllowList |-> <<>>,
     DenyUri |-> <<>>]

\* New without its check of the filename
NewUnchecked(cfg) ==
    [handler |-> <<[enabled |-> cfg.Enabled,
                    filename |-> cfg.Filename,
                    triggerFilename |-> cfg.TriggerFilename,
                    httpResponseCode |-> cfg.HttpResponseCode,
                    HttpContentType |-> cfg.HttpContentType,
                    IpAllowList |-> cfg.IpAllowList,
                    DenyUri |-> cfg.DenyUri]>>,
     err |-> "nil"]

\* New: [handler, err]; handler is <<>> (nil) or holds the one MaintenancePage
New(cfg) ==
    IF Len(cfg.Filename) = 0
    THEN [handler |-> <<>>, err |-> "filename cannot be empty"]
    ELSE [handler |-> <<[enabled |-> cfg.Enabled,
                         filename |-> cfg.Filename,
                         triggerFilename |-> cfg.TriggerFilename,
                         httpResponseCode |-> cfg.HttpResponseCode,
                         HttpContentType |-> cfg.HttpContentType,
                         IpAllowList |-> cfg.IpAllowList,
                         DenyUri |-> cfg.DenyUri]>>,
          err |-> "nil"]

\* whether maintenanceEnabled gets as far as os.Stat
statCalled(a) == a.enabled /\ Len(a.triggerFilename) # 0

\* maintenanceEnabled with the trigger file overruling the enabled switch
maintenanceEnabledNoSwitch(a, statOk) ==
    IF Len(a.triggerFilename) = 0 THEN a.enabled ELSE statOk

\* maintenanceEnabled without the probe of the trigger file
maintenanceEnabledNoProbe(a, statOk) == a.enabled

\* maintenanceEnabled; statOk is whether os.Stat(a.triggerFilename) gives no
\* error at the moment of the call
maintenanceEnabled(a, statOk) ==
    IF ~a.enabled
    THEN FALSE
    ELSE IF a.enabled /\ Len(a.triggerFilename) = 0
    THEN TRUE
    ELSE IF statOk
    THEN TRUE
    ELSE FALSE

ipAddrFromRemoteAddr(s) ==
    LET idx == LastIndex(s, ":")
    IN  IF idx = 0 THEN s ELSE SubSeq(s, 1, idx - 1)

\* requestGetRemoteAddress with X-Real-Ip ahead of X-Forwarded-For
requestGetRemoteAddressRealIpFirst(r) ==
    IF Len(r.XRealIp) # 0
    THEN r.XRealIp
    ELSE IF Len(r.XForwardedFor) # 0
    THEN TrimSpace(Split(r.XForwardedFor, ",")[1])
    ELSE ipAddrFromRemoteAddr(r.RemoteAddr)

requestGetRemoteAddress(r) ==
    LET hdrRealIP == r.XRealIp
        hdrForwardedFor == r.XForwardedFor
    IN  IF Len(hdrRealIP) = 0 /\ Len(hdrForwardedFor) = 0
        THEN ipAddrFromRemoteAddr(r.RemoteAddr)
        ELSE IF Len(hdrForwardedFor) # 0
        THEN LET split == Split(hdrForwardedFor, ",")
                 parts == [i \in 1..Len(split) |-> TrimSpace(split[i])]
             IN  parts[1]
        ELSE hdrRealIP

\* the loop of checkIgnore giving up at a malformed entry
RECURSIVE checkIgnoreFromAbort(_, _, _)
checkIgnoreFromAbort(list, i, remoteAddr) ==
    IF i > Len(list)
    THEN TRUE
    ELSE LET parsed == ParseCIDR(list[i])
         IN  IF ~parsed.ok
             THEN TRUE
             ELSE IF Contains(parsed, ParseIP(remoteAddr))
             THEN FALSE
             ELSE checkIgnoreFromAbort(list, i + 1, remoteAddr)

\* the loop of checkIgnore from entry i of the allow-list on
RECURSIVE checkIgnoreFrom(_, _, _)
checkIgnoreFrom(list, i, remoteAddr) ==
    IF i > Len(list)
    THEN TRUE                                       \* Request is ignored
    ELSE LET parsed == ParseCIDR(list[i])
         IN  IF ~parsed.ok
             THEN checkIgnoreFrom(list, i + 1, remoteAddr)      \* continue
             ELSE IF Contains(parsed, ParseIP(remoteAddr))
             THEN FALSE                             \* Request is allowed
             ELSE checkIgnoreFrom(list, i + 1, remoteAddr)

checkIgnore(a, r) ==
    LET remoteAddr == requestGetRemoteAddress(r)
    IN  IF Len(a.IpAllowList) > 0
        THEN checkIgnoreFrom(a.IpAllowList, 1, remoteAddr)
        ELSE TRUE                                   \* All request is ignored

\* the loop of checkDenyUri from entry i of the deny-uri list on
RECURSIVE checkDenyUriFrom(_, _, _)
checkDenyUriFrom(list, i, reqUrl) ==
    IF i > Len(list)
    THEN FALSE
    ELSE LET denyPattern == Compile(list[i])
         IN  IF ~denyPattern.ok
             THEN checkDenyUriFrom(list, i + 1, reqUrl)         \* continue
             ELSE IF MatchString(denyPattern.prog, reqUrl)
             THEN TRUE
             ELSE checkDenyUriFrom(list, i + 1, reqUrl)

checkDenyUri(a, r) ==
    LET reqUrl == r.URL
    IN  IF Len(a.DenyUri) > 0
        THEN checkDenyUriFrom(a.DenyUri, 1, reqUrl)
        ELSE FALSE

\* the condition of ServeHTTP's if without the deny-uri list
showPageIgnoreOnly(a, r, statOk) ==
    maintenanceEnabled(a, statOk) /\ checkIgnore(a, r)

\* the condition of ServeHTTP's if
showPage(a, r, statOk) ==
    maintenanceEnabled(a, statOk) /\ (checkIgnore(a, r) \/ checkDenyUri(a, r))

\* http.Header.Add
HeaderAdd(values, v) == Append(values, v)

\* ServeHTTP run from its first line to its last by one goroutine alone, on
\* handler a, request r and ResponseWriter w, when its calls of os.Stat,
\* os.ReadFile and rw.Write give what o says: the ResponseWriter it leaves
\* and its numbers of calls of os.ReadFile and of the next handler.  After
\* a failed Write the body holds whatever part went out, o.sent.
ServeHTTP(a, r, w, o) ==
    LET written(body) ==
            [ContentType |-> HeaderAdd(w.ContentType, a.HttpContentType),
             status |-> a.httpResponseCode,
             body |-> w.body \o body]
    IN  IF showPage(a, r, o.stat = "ok")
        THEN IF o.read = "ok"
             THEN IF o.write = "ok"
                  THEN [rw |-> written(o.bytes), reads |-> 1, nextCalls |-> 0]
                  ELSE [rw |-> written(o.sent), reads |-> 1, nextCalls |-> 1]
             ELSE [rw |-> w, reads |-> 1, nextCalls |-> 1]
        ELSE [rw |-> w, reads |-> 0, nextCalls |-> 1]

-----------------------------------------------------------------------------
(* The inputs.                                                             *)

\* a list is malformed entries and good ones, the malformed ones first so
\* that a scan has to pass them
AllowLists == {<<>>, <<"::ffff:10.0.0.0/104">>, <<"10.0.0.0/33", "::/0", "10.0.0.0/8">>}
DenyLists == {<<>>, <<"\\.php$">>, <<"[", "a{2,1}", "^/(api|admin)/">>}

Configs ==
    [Enabled : BOOLEAN,
     Filename : {CreateConfig.Filename, "maintenance.html"},
     TriggerFilename : {CreateConfig.TriggerFilename, "maintenance.trigger"},
     HttpResponseCode : {CreateConfig.HttpResponseCode, 200},
     HttpContentType : {CreateConfig.HttpContentType, "text/plain"},
     IpAllowList : AllowLists,
     DenyUri : DenyLists]

Requests ==
    [RemoteAddr : {"10.0.0.5:5000", "[2001:db8::1]:443"},
     XRealIp : {""},
     XForwardedFor : {"", "::ffff:10.0.0.5, 203.0.113.9"},
     URL : {"/admin/index.php", "/index.html"}]

\* the Content-Type values a ResponseWriter may hold when it is handed in
WriterHeaders == {<<>>, <<"application/json">>}

\* what os.ReadFile(filename) may give
Contents == {[ok |-> FALSE, bytes |-> ""],
             [ok |-> TRUE, bytes |-> "<p>"],
             [ok |-> TRUE, bytes |-> "<hr>"]}

\* the smaller inputs of the runs in which goroutines interleave
ConcConfigs ==
    [Enabled : BOOLEAN,
     Filename : {"maintenance.html"},
     TriggerFilename : {CreateConfig.TriggerFilename, "maintenance.trigger"},
     HttpResponseCode : {CreateConfig.HttpResponseCode},
     HttpContentType : {CreateConfig.HttpContentType},
     IpAllowList : {<<"10.0.0.0/8">>},
     DenyUri : {<<"^/(api|admin)/">>}]

ConcRequests ==
    {[RemoteAddr |-> "10.0.0.5:5000", XRealIp |-> "", XForwardedFor |-> "",
      URL |-> "/index.html"],
     [RemoteAddr |-> "10.0.0.5:5000", XRealIp |-> "", XForwardedFor |-> "",
      URL |-> "/admin/index.php"],
     [RemoteAddr |-> "203.0.113.9:443", XRealIp |-> "", XForwardedFor |-> "",
      URL |-> "/index.html"]}

ConcWriterHeaders == {<<>>}

ConcContents == {[ok |-> FALSE, bytes |-> ""], [ok |-> TRUE, bytes |-> "<p>"]}

NoRequestFields ==
    [RemoteAddr |-> "", XRealIp |-> "", XForwardedFor |-> "", URL |-> ""]

\* the inputs of the direct calls of the helpers
ListsOver(S) == UNION {[1..n -> S] : n \in 0..MaxList}

CidrEntries ==
    {"10.0.0.0/8", "192.168.1.64/26", "::ffff:10.0.0.0/104", "2001:db8::/32", "::/0",
     "10.0.0.0/33", "bogus", "10.0.0.1"}

Patterns ==
    {"^/a+$", "/(api|admin)/", "\\.(php|html)$", "(/api)*b", "(?i)^/[0-9]{2}",
     "[", "a{2,1}", "(", "*"}

HelperRequests ==
    [RemoteAddr : {"10.0.0.1:5000", "192.168.1.70", "[2001:db8::1]:443", ":", ""},
     XRealIp : {"", "10.0.0.9", " 192.168.1.65", "2001:db8::1"},
     XForwardedFor : {"", "1.2.3.4, 5.6.7.8", " 10.0.0.5 ,203.0.113.9",
                      At(Chars, 11) \o "10.0.0.5" \o At(Chars, 160) \o ",10.0.0.9",
                      "::ffff:10.0.0.5", ",10.0.0.5", "  ", "192.168.1.127"},
     URL : {"/"}]

HelperUrls == {"/api/widgets", "/index.html", "/aa", "/admin/x.php", "/42/B", ""}

\* a handler with the given lists
HandlerWith(allow, deny) ==
    New([CreateConfig EXCEPT !.Enabled = TRUE,
                             !.Filename = "maintenance.html",
                             !.IpAllowList = allow,
                             !.DenyUri = deny]).handler[1]

HelperCalls ==
    {[fn |-> "requestGetRemoteAddress", a |-> HandlerWith(<<>>, <<>>), r |-> r] :
        r \in HelperRequests}
    \cup {[fn |-> "checkIgnore", a |-> HandlerWith(l, <<>>), r |-> r] :
            l \in ListsOver(CidrEntries), r \in HelperRequests}
    \cup {[fn |-> "checkDenyUri", a |-> HandlerWith(<<>>, l),
           r |-> [NoRequestFields EXCEPT !.URL = u]] :
            l \in ListsOver(Patterns), u \in HelperUrls}

-----------------------------------------------------------------------------
(* The state machine.                                                      *)

NoRequest == NoRequestFields

\* a ResponseWriter nothing was written to: the values of its Content-Type
\* header, the status code written (0: none yet), the body written
Writer(contentType) == [ContentType |-> contentType, status |-> 0, body |-> ""]

\* what one goroutine has seen: the result of maintenanceEnabled, of its
\* os.Stat ("none" when it made no such call), of os.ReadFile with the bytes
\* it got, and of rw.Write
NoObs == [enabled |-> FALSE, stat |-> "none", read |-> "none", bytes |-> "",
          write |-> "none"]

NoCall == [fn |-> "none", a |-> HandlerWith(<<>>, <<>>), r |-> NoRequest]

Init ==
    /\ config = <<>>
    /\ instance = <<>>
    /\ newErr = "uncalled"
    /\ triggerFile = FALSE
    /\ contentFile = [ok |-> TRUE, bytes |-> "<p>"]
    /\ pc = [r \in Reqs |-> "idle"]
    /\ req = [r \in Reqs |-> NoRequest]
    /\ rw0 = [r \in Reqs |-> Writer(<<>>)]
    /\ rw = [r \in Reqs |-> Writer(<<>>)]
    /\ obs = [r \in Reqs |-> NoObs]
    /\ reads = [r \in Reqs |-> 0]
    /\ nextCalls = [r \in Reqs |-> 0]
    /\ call = NoCall
    /\ ret = <<>>

\* the plugin framework calls New, once
Construct(cfg) ==
    /\ newErr = "uncalled"
    /\ config' = <<cfg>>
    /\ instance' = New(cfg).handler
    /\ newErr' = New(cfg).err
    /\ UNCHANGED <<fileVars, serveVars, callVars>>

\* somebody creates the trigger file
TouchTrigger ==
    /\ ~triggerFile
    /\ triggerFile' = TRUE
    /\ UNCHANGED <<contentFile, newVars, serveVars, callVars>>

\* somebody removes the trigger file
RemoveTrigger ==
    /\ triggerFile
    /\ triggerFile' = FALSE
    /\ UNCHANGED <<contentFile, newVars, serveVars, callVars>>

\* somebody rewrites, removes or restores the content file
ChangeContent(c) ==
    /\ c # contentFile
    /\ contentFile' = c
    /\ UNCHANGED <<triggerFile, newVars, serveVars, callVars>>

\* Enter with the request kept in one place for all goroutines
EnterShared(r, request, h) ==
    /\ Len(instance) = 1
    /\ pc[r] = "idle"
    /\ obs' = [obs EXCEPT ![r] =
                 [NoObs EXCEPT
                    !.enabled = maintenanceEnabled(instance[1], triggerFile),
                    !.stat = IF statCalled(instance[1])
                             THEN IF triggerFile THEN "ok" ELSE "err"
                             ELSE "none"]]
    /\ pc' = [pc EXCEPT ![r] =
                IF showPage(instance[1], request, triggerFile) THEN "read" ELSE "next"]
    /\ req' = [q \in Reqs |-> request]
    /\ rw0' = [rw0 EXCEPT ![r] = Writer(h)]
    /\ rw' = [rw EXCEPT ![r] = Writer(h)]
    /\ reads' = [reads EXCEPT ![r] = 0]
    /\ nextCalls' = [nextCalls EXCEPT ![r] = 0]
    /\ UNCHANGED <<newVars, fileVars, callVars>>

\* ServeHTTP, line 75: goroutine r is handed a request and a ResponseWriter
\* whose Content-Type header holds the values h, and evaluates the
\* condition, os.Stat included
Enter(r, request, h) ==
    /\ Len(instance) = 1
    /\ pc[r] = "idle"
    /\ LET a == instance[1]
       IN  /\ obs' = [obs EXCEPT ![r] =
                        [NoObs EXCEPT
                           !.enabled = maintenanceEnabled(a, triggerFile),
                           !.stat = IF statCalled(a)
                                    THEN IF triggerFile THEN "ok" ELSE "err"
                                    ELSE "none"]]
           /\ pc' = [pc EXCEPT ![r] =
                       IF showPage(a, request, triggerFile) THEN "read" ELSE "next"]
    /\ req' = [req EXCEPT ![r] = request]
    /\ rw0' = [rw0 EXCEPT ![r] = Writer(h)]
    /\ rw' = [rw EXCEPT ![r] = Writer(h)]
    /\ reads' = [reads EXCEPT ![r] = 0]
    /\ nextCalls' = [nextCalls EXCEPT ![r] = 0]
    /\ UNCHANGED <<newVars, fileVars, callVars>>

\* ReadFile trying again after a failed read
ReadFileRetry(r) ==
    /\ pc[r] = "read"
    /\ reads' = [reads EXCEPT ![r] = @ + 1]
    /\ obs' = [obs EXCEPT ![r].read = IF contentFile.ok THEN "ok" ELSE "err",
                          ![r].bytes = contentFile.bytes]
    /\ pc' = [pc EXCEPT ![r] = IF contentFile.ok THEN "write" ELSE "read"]
    /\ UNCHANGED <<newVars, fileVars, req, rw0, rw, nextCalls, callVars>>

\* ServeHTTP, lines 77-78 and 87-89: os.ReadFile
ReadFile(r) ==
    /\ pc[r] = "read"
    /\ reads' = [reads EXCEPT ![r] = @ + 1]
    /\ obs' = [obs EXCEPT ![r].read = IF contentFile.ok THEN "ok" ELSE "err",
                          ![r].bytes = contentFile.bytes]
    /\ pc' = [pc EXCEPT ![r] = IF contentFile.ok THEN "write" ELSE "next"]
    /\ UNCHANGED <<newVars, fileVars, req, rw0, rw, nextCalls, callVars>>

\* ServeHTTP, lines 79-86: the header, the status code and the body; Write
\* gives an error or not, and with an error has written any part of the body
Respond(r) ==
    /\ pc[r] = "write"
    /\ \E err \in BOOLEAN, n \in 0..Len(obs[r].bytes) :
          /\ ~err => n = Len(obs[r].bytes)
          /\ rw' = [rw EXCEPT ![r] =
                      [ContentType |->
                           HeaderAdd(@.ContentType, instance[1].HttpContentType),
                       status |-> instance[1].httpResponseCode,
                       body |-> @.body \o SubSeq(obs[r].bytes, 1, n)]]
          /\ obs' = [obs EXCEPT ![r].write = IF err THEN "err" ELSE "ok"]
          /\ pc' = [pc EXCEPT ![r] = IF err THEN "next" ELSE "returned"]
    /\ UNCHANGED <<newVars, fileVars, req, rw0, reads, nextCalls, callVars>>

\* ServeHTTP, line 92: a.next.ServeHTTP(rw, req)
NextServeHTTP(r) ==
    /\ pc[r] = "next"
    /\ nextCalls' = [nextCalls EXCEPT ![r] = @ + 1]
    /\ pc' = [pc EXCEPT ![r] = "returned"]
    /\ UNCHANGED <<newVars, fileVars, req, rw0, rw, obs, reads, callVars>>

\* the goroutine is done with the request and free for another one
Finish(r) ==
    /\ pc[r] = "returned"
    /\ pc' = [pc EXCEPT ![r] = "idle"]
    /\ req' = [req EXCEPT ![r] = NoRequest]
    /\ rw0' = [rw0 EXCEPT ![r] = Writer(<<>>)]
    /\ rw' = [rw EXCEPT ![r] = Writer(<<>>)]
    /\ obs' = [obs EXCEPT ![r] = NoObs]
    /\ reads' = [reads EXCEPT ![r] = 0]
    /\ nextCalls' = [nextCalls EXCEPT ![r] = 0]
    /\ UNCHANGED <<newVars, fileVars, callVars>>

\* requests handled one after the other, over every configuration
Next ==
    \/ \E cfg \in Configs : Construct(cfg)
    \/ TouchTrigger
    \/ RemoveTrigger
    \/ \E c \in Contents : ChangeContent(c)
    \/ \E request \in Requests, h \in WriterHeaders : Enter(1, request, h)
    \/ ReadFile(1)
    \/ Respond(1)
    \/ NextServeHTTP(1)
    \/ Finish(1)

Spec == Init /\ [][Next]_vars

\* requests handled by NumReqs goroutines at once
NextConc ==
    \/ \E cfg \in ConcConfigs : Construct(cfg)
    \/ TouchTrigger
    \/ RemoveTrigger
    \/ \E c \in ConcContents : ChangeContent(c)
    \/ \E r \in Reqs, request \in ConcRequests, h \in ConcWriterHeaders :
          Enter(r, request, h)
    \/ \E r \in Reqs : ReadFile(r)
    \/ \E r \in Reqs : Respond(r)
    \/ \E r \in Reqs : NextServeHTTP(r)
    \/ \E r \in Reqs : Finish(r)

SpecConc == Init /\ [][NextConc]_vars

-----------------------------------------------------------------------------
(* The helpers called directly, on one input each.                         *)

InitHelpers ==
    /\ config = <<>>
    /\ instance = <<>>
    /\ newErr = "uncalled"
    /\ triggerFile = FALSE
    /\ contentFile = [ok |-> TRUE, bytes |-> "<p>"]
    /\ pc = [r \in Reqs |-> "idle"]
    /\ req = [r \in Reqs |-> NoRequest]
    /\ rw0 = [r \in Reqs |-> Writer(<<>>)]
    /\ rw = [r \in Reqs |-> Writer(<<>>)]
    /\ obs = [r \in Reqs |-> NoObs]
    /\ reads = [r \in Reqs |-> 0]
    /\ nextCalls = [r \in Reqs |-> 0]
    /\ call \in HelperCalls
    /\ ret = <<>>

CallRequestGetRemoteAddress ==
    /\ call.fn = "requestGetRemoteAddress"
    /\ Len(ret) = 0
    /\ ret' = <<requestGetRemoteAddress(call.r)>>
    /\ UNCHANGED <<call, newVars, fileVars, serveVars>>

CallCheckIgnore ==
    /\ call.fn = "checkIgnore"
    /\ Len(ret) = 0
    /\ ret' = <<checkIgnore(call.a, call.r)>>
    /\ UNCHANGED <<call, newVars, fileVars, serveVars>>

CallCheckDenyUri ==
    /\ call.fn = "checkDenyUri"
    /\ Len(ret) = 0
    /\ ret' = <<checkDenyUri(call.a, call.r)>>
    /\ UNCHANGED <<call, newVars, fileVars, serveVars>>

NextHelpers ==
    \/ CallRequestGetRemoteAddress
    \/ CallCheckIgnore
    \/ CallCheckDenyUri

SpecHelpers == InitHelpers /\ [][NextHelpers]_vars

-----------------------------------------------------------------------------
(* What the claims speak of, said without the scans of the code.           *)

\* bit b (1 the most significant of the first byte) of an IP
Bit(ip, b) == (ip[((b - 1) \div 8) + 1] \div Pow2(7 - ((b - 1) % 8))) % 2

\* the 16 bytes are those of an IPv4 address, which package net holds in
\* the form ::ffff:a.b.c.d and takes for the same address as a.b.c.d
IsIPv4(ip) ==
    /\ \A k \in 1..10 : ip[k] = 0
    /\ ip[11] = 255 /\ ip[12] = 255

\* digits is a decimal numeral of a value up to max (less than 1000), zeros
\* before it allowed
NumeralUpTo(digits, max) ==
    LET n == Len(digits)
        tail == SubSeq(digits, IF n > 3 THEN n - 2 ELSE 1, n)
    IN  /\ n > 0
        /\ AllDigits(digits)
        /\ \A k \in 1..(n - 3) : At(digits, k) = "0"
        /\ DecVal(tail) <= max

\* entry is base/n, base an address without a zone and n a prefix length of
\* that address's family (at most 32 written as IPv4, at most 128 written
\* as IPv6), and addr is an address whose leading bits are those of base:
\* the first n bits of an IPv4 address when the range is one of IPv4
\* addresses (base written as IPv4, or as ::ffff:a.b.c.d with a prefix of 96
\* bits or more, of which the bits past the 96th count), the first n bits
\* of an IPv6 address that is no IPv4 address when it is not
InRange(entry, addr) ==
    LET slash == Index(entry, "/")
        base == ParseAddr(SubSeq(entry, 1, slash - 1))
        len == SubSeq(entry, slash + 1, Len(entry))
        n == IF base.bitLen = 32
             THEN 96 + DecVal(SubSeq(len, IF Len(len) > 3 THEN Len(len) - 2 ELSE 1,
                                     Len(len)))
             ELSE DecVal(SubSeq(len, IF Len(len) > 3 THEN Len(len) - 2 ELSE 1,
                                Len(len)))
        ip == ParseIP(addr)
    IN  /\ slash # 0
        /\ base.ok /\ Len(base.zone) = 0
        /\ NumeralUpTo(len, base.bitLen)
        /\ Len(ip) = 16
        /\ (IsIPv4(ip) <=> (IsIPv4(base.as16) /\ n >= 96))
        /\ \A b \in 1..n : Bit(ip, b) = Bit(base.as16, b)

\* some entry of the allow-list is a range that holds the address
Allowed(list, addr) == \E i \in 1..Len(list) : InRange(list[i], addr)

\* some entry of the deny-uri list compiles and matches the URI
Denied(list, uri) ==
    \E i \in 1..Len(list) :
        Compile(list[i]).ok /\ MatchString(Compile(list[i]).prog, uri)

\* got is the first comma-separated segment of h, less the white space
\* around it
FirstSegmentTrimmed(h, got) ==
    \E e \in 0..Len(h), i \in 1..(Len(h) + 1), j \in 0..Len(h) :
        /\ \A k \in 1..e : At(h, k) # ","
        /\ e = Len(h) \/ At(h, e + 1) = ","
        /\ i <= j + 1 /\ j <= e
        /\ got = SubSeq(h, i, j)
        /\ \A k \in 1..(i - 1) : IsSpace(At(h, k))
        /\ \A k \in (j + 1)..e : IsSpace(At(h, k))
        /\ i <= j => ~IsSpace(At(h, i)) /\ ~IsSpace(At(h, j))

\* got is s up to its last colon, or s when it holds none
BeforeLastColon(s, got) ==
    IF \A k \in 1..Len(s) : At(s, k) # ":"
    THEN got = s
    ELSE \E k \in 1..Len(s) :
            /\ At(s, k) = ":"
            /\ \A m \in (k + 1)..Len(s) : At(s, m) # ":"
            /\ got = SubSeq(s, 1, k - 1)

\* goroutine r has read, or is about to read, the content file
Attempted(r) == pc[r] = "read" \/ reads[r] >= 1

\* the complete maintenance response of handler a with the bytes
Page(a, bytes) ==
    [ContentType |-> <<a.HttpContentType>>,
     status |-> a.httpResponseCode,
     body |-> bytes]

-----------------------------------------------------------------------------
(* The claims.                                                             *)

\* C1: for a request that maintenanceEnabled reported active, ServeHTTP goes
\* for the content file exactly when the resolved address is in no range of
\* the allow-list or some deny-uri entry that compiles matches the URI.
C1_ShowPageIffIgnoredOrDenied ==
    \A r \in Reqs :
        (pc[r] # "idle" /\ obs[r].enabled) =>
            (Attempted(r) <=>
                \/ ~Allowed(instance[1].IpAllowList, requestGetRemoteAddress(req[r]))
                \/ Denied(instance[1].DenyUri, req[r].URL))

\* C1 witness: an allow-listed caller is shown the page because a deny-uri
\* entry behind two malformed ones matches.
C1_Witness ==
    \E r \in Reqs :
        /\ pc[r] = "returned" /\ obs[r].enabled /\ reads[r] = 1
        /\ Allowed(instance[1].IpAllowList, requestGetRemoteAddress(req[r]))
        /\ Len(instance[1].DenyUri) = 3
        /\ Denied(instance[1].DenyUri, req[r].URL)

\* C2: with enabled false a request goes to the next handler, the content
\* file is never read and the ResponseWriter is left as it was handed in.
C2_DisabledForwardsUntouched ==
    \A r \in Reqs :
        (pc[r] # "idle" /\ ~instance[1].enabled) =>
            /\ pc[r] \in {"next", "returned"}
            /\ reads[r] = 0
            /\ rw[r] = rw0[r]
            /\ pc[r] = "returned" => nextCalls[r] = 1

\* C2 witness: a disabled handler forwarded a request although the trigger
\* file is there, the caller is in no allowed range and the URI is denied.
C2_Witness ==
    \E r \in Reqs :
        /\ pc[r] = "returned" /\ ~instance[1].enabled /\ nextCalls[r] = 1
        /\ Len(instance[1].triggerFilename) # 0 /\ triggerFile
        /\ ~Allowed(instance[1].IpAllowList, requestGetRemoteAddress(req[r]))
        /\ Denied(instance[1].DenyUri, req[r].URL)

\* C3: checkIgnore is false exactly when the address parses and some entry
\* of the list, wherever it stands, is a range that holds it, an address
\* ::ffff:a.b.c.d being the IPv4 address a.b.c.d as package net has it.
C3_IgnoredIffInNoRange ==
    (call.fn = "checkIgnore" /\ Len(ret) = 1) =>
        (ret[1] = FALSE <=>
            Allowed(call.a.IpAllowList, requestGetRemoteAddress(call.r)))

\* C3 witness: the address is found in a range that stands behind a
\* malformed entry.
C3_Witness ==
    /\ call.fn = "checkIgnore" /\ Len(ret) = 1 /\ ret[1] = FALSE
    /\ call.a.IpAllowList = <<"bogus", "192.168.1.64/26">>
    /\ requestGetRemoteAddress(call.r) = "192.168.1.127"

\* C5: os.ReadFile is called at most once and the next handler at most once
\* per request, and a request whose read or write failed has had the next
\* handler called once.
C5_FailureForwardsOnce ==
    \A r \in Reqs :
        /\ reads[r] <= 1
        /\ nextCalls[r] <= 1
        /\ (pc[r] = "returned" /\ (obs[r].read = "err" \/ obs[r].write = "err")) =>
               reads[r] = 1 /\ nextCalls[r] = 1

\* C5 witness: the write of the body failed and the request was forwarded.
C5_Witness ==
    \E r \in Reqs :
        pc[r] = "returned" /\ obs[r].write = "err" /\ reads[r] = 1 /\ nextCalls[r] = 1

\* C7: the resolved address is the first segment of X-Forwarded-For trimmed
\* if that header is not empty, else X-Real-Ip verbatim if that is not
\* empty, else the peer address up to its last colon.
C7_AddressPrecedence ==
    (call.fn = "requestGetRemoteAddress" /\ Len(ret) = 1) =>
        IF Len(call.r.XForwardedFor) # 0
        THEN FirstSegmentTrimmed(call.r.XForwardedFor, ret[1])
        ELSE IF Len(call.r.XRealIp) # 0
        THEN ret[1] = call.r.XRealIp
        ELSE BeforeLastColon(call.r.RemoteAddr, ret[1])

\* C7 witness: both headers are set and the trimmed first segment of
\* X-Forwarded-For is the answer.
C7_Witness ==
    /\ call.fn = "requestGetRemoteAddress" /\ Len(ret) = 1
    /\ call.r.XForwardedFor = " 10.0.0.5 ,203.0.113.9"
    /\ call.r.XRealIp = "10.0.0.9"
    /\ ret[1] = "10.0.0.5"

\* C9: New gives an error and no handler exactly when the filename is empty,
\* so a handler that exists has a filename.
C9_NewFailsIffNoFilename ==
    newErr # "uncalled" =>
        /\ newErr # "nil" <=> Len(config[1].Filename) = 0
        /\ newErr # "nil" <=> Len(instance) = 0
        /\ \A i \in 1..Len(instance) : Len(instance[i].filename) > 0

\* C9 witness: New refused a configuration that is complete but for the
\* filename.
C9_Witness ==
    /\ newErr = "filename cannot be empty"
    /\ Len(instance) = 0
    /\ config[1].Enabled /\ Len(config[1].TriggerFilename) # 0
    /\ Len(config[1].IpAllowList) # 0

\* C4: a request ends either with the complete maintenance response and no
\* call of the next handler, or with one call of the next handler and a
\* ResponseWriter the middleware wrote nothing to.
C4_ExactlyOneOutcome ==
    \A r \in Reqs :
        pc[r] = "returned" =>
            \/ /\ nextCalls[r] = 0
               /\ rw[r].status = instance[1].httpResponseCode
               /\ rw[r].body = obs[r].bytes
            \/ /\ nextCalls[r] = 1
               /\ rw[r] = rw0[r]

\* C6: a request that enters a handler with enabled true is active exactly
\* when the trigger file is there at that moment, or always when no trigger
\* is configured; a request that is not active goes to the next handler.
C6_TriggerLevelSensitive ==
    [][\A r \in Reqs :
          (pc[r] = "idle" /\ pc'[r] # "idle" /\ instance[1].enabled) =>
              /\ obs'[r].enabled <=>
                    (Len(instance[1].triggerFilename) = 0 \/ triggerFile)
              /\ ~obs'[r].enabled => pc'[r] = "next"]_vars

\* C6 witness: two requests to one handler, one active and one not, the
\* trigger file having been flipped between their probes.
C6_Witness ==
    /\ pc[1] # "idle" /\ pc[2] # "idle"
    /\ obs[1].stat = "ok" /\ obs[1].enabled
    /\ obs[2].stat = "err" /\ ~obs[2].enabled

\* C8: a served page carries the configured status code, the configured
\* content type as its one Content-Type value, and the bytes read as body.
C8_ServedResponse ==
    \A r \in Reqs :
        (pc[r] = "returned" /\ obs[r].write = "ok") =>
            rw[r] = Page(instance[1], obs[r].bytes)

\* C10: no step of any goroutine changes the handler, a request in flight
\* or anything of a goroutine that did not take the step, and a request ends
\* as ServeHTTP run alone on what that goroutine itself saw would end.
C10_RequestsIndependent ==
    [][/\ Len(instance) = 1 => instance' = instance
       /\ \A r \in Reqs :
             /\ (pc[r] # "idle" /\ pc'[r] # "idle") => req'[r] = req[r]
             /\ pc'[r] = pc[r] =>
                   /\ req'[r] = req[r] /\ rw0'[r] = rw0[r] /\ rw'[r] = rw[r]
                   /\ obs'[r] = obs[r]
                   /\ reads'[r] = reads[r] /\ nextCalls'[r] = nextCalls[r]
             /\ (pc[r] # "returned" /\ pc'[r] = "returned") =>
                   [rw |-> rw'[r], reads |-> reads'[r], nextCalls |-> nextCalls'[r]]
                       = ServeHTTP(instance'[1], req'[r], rw0'[r],
                             [stat |-> obs'[r].stat,
                              read |-> obs'[r].read,
                              write |-> obs'[r].write,
                              bytes |-> obs'[r].bytes,
                              sent |-> rw'[r].body])]_vars

\* C10 witness: two goroutines were given the same request and one served
\* the page while the other forwarded.
C10_Witness ==
    /\ pc[1] = "returned" /\ pc[2] = "returned"
    /\ req[1] = req[2]
    /\ nextCalls[1] = 0 /\ nextCalls[2] = 1

=============================================================================
